---- MODULE Spec2Model ----
(***************************************************************************)
(* Model of youtube_to_spotify.py: one run of _main, from the parsed       *)
(* command line to the exit of the process.  Strings that the program      *)
(* takes apart (the playlist argument) are sequences of tokens; the two    *)
(* remote services answer each request nondeterministically.               *)
(***************************************************************************)
EXTENDS Integers, Sequences, FiniteSets, TLC

VARIABLES
    pc,                \* position of _main
    environ,           \* names of the environment variables that are set
    stdout_tty,        \* whether os.get_terminal_size() can answer
    args,              \* argparse namespace: youtube_playlist, name
    arg_parts,         \* history: the parts the playlist argument was composed of
    yt_token,          \* _main's yt_token  (<<>> while unset)
    sp_token,          \* _main's sp_token  (<<>> while unset)
    youtube_playlist,  \* _main's youtube_playlist (<<>> while unset)
    name,              \* _main's name (<<>> while unset, else <<title>>)
    ret,               \* _youtube_get_tracks' ret: the last page received
    tracks,            \* the accumulated track entries
    uris,              \* _main's uris
    user,              \* _spotify_create_playlist's user (<<>> while unset)
    spotify_playlist,  \* _main's spotify_playlist (<<>> while unset)
    start,             \* the append loop's start
    http,              \* every _url_open call so far, in order, with its outcome
    pages,             \* every page the source service has served, in order
    exc,               \* the exception that ended the run ("" if none)
    exit_code          \* process exit status (-1 while running)

vars == <<pc, environ, stdout_tty, args, arg_parts, yt_token, sp_token,
          youtube_playlist, name, ret, tracks, uris, user, spotify_playlist,
          start, http, pages, exc, exit_code>>

(***************************************************************************)
(* Bounds of the model and constants of the program.                       *)
(***************************************************************************)
MaxPages == 5
SmallPage == 3
MaxPairs == 2
MaxResults == 50
ChunkSize == 100

NoCursor == 0

\* line 94: the literal that s.startswith tests; one token of the argument
YT_PLAYLIST_PREFIX == "https://www.youtube.com/playlist"
OTHER_PREFIX == "https://youtube.com/playlist"

(***************************************************************************)
(* Sequence helpers.                                                       *)
(***************************************************************************)
Last(s) == s[Len(s)]

IndexOf(s, c) ==
    IF \E i \in 1..Len(s) : s[i] = c
    THEN CHOOSE i \in 1..Len(s) : s[i] = c /\ \A j \in 1..(i - 1) : s[j] # c
    ELSE 0

RECURSIVE Concat(_)
Concat(ss) == IF ss = <<>> THEN <<>> ELSE Head(ss) \o Concat(Tail(ss))

\* str.split(sep): the pieces between the occurrences of sep
RECURSIVE Split(_, _)
Split(s, sep) ==
    LET i == IndexOf(s, sep)
    IN  IF i = 0 THEN <<s>>
        ELSE <<SubSeq(s, 1, i - 1)>> \o Split(SubSeq(s, i + 1, Len(s)), sep)

\* str.split(sep, 1)
Split1(s, sep) ==
    LET i == IndexOf(s, sep)
    IN  IF i = 0 THEN <<s>>
        ELSE <<SubSeq(s, 1, i - 1), SubSeq(s, i + 1, Len(s))>>

(***************************************************************************)
(* _youtube_get_playlist_id and the library calls it makes.                *)
(***************************************************************************)
\* urllib.parse.urlparse(s).query: the fragment is cut at the first "#",
\* then the query is what follows the first "?"
urlparse_query(s) ==
    LET h == IndexOf(s, "#")
        url == IF h = 0 THEN s ELSE SubSeq(s, 1, h - 1)
        q == IndexOf(url, "?")
    IN  IF q = 0 THEN <<>> ELSE SubSeq(url, q + 1, Len(url))

\* urllib.parse.unquote applied after replace("+", " ")
unquote_plus(s) == [i \in 1..Len(s) |-> IF s[i] = "+" THEN " " ELSE s[i]]

\* urllib.parse.quote_plus on the characters of the model
quote_plus(s) == [i \in 1..Len(s) |-> IF s[i] = " " THEN "+" ELSE s[i]]

\* urllib.parse.parse_qsl with keep_blank_values=False, strict_parsing=False
RECURSIVE parse_pairs(_)
parse_pairs(ps) ==
    IF ps = <<>> THEN <<>>
    ELSE LET nv == Split1(Head(ps), "=")
             rest == parse_pairs(Tail(ps))
         IN  IF Head(ps) = <<>> THEN rest
             ELSE IF Len(nv) # 2 THEN rest
             ELSE IF Len(nv[2]) = 0 THEN rest
             ELSE <<[name |-> unquote_plus(nv[1]), value |-> unquote_plus(nv[2])]>> \o rest

parse_qsl(qs) == parse_pairs(Split(qs, "&"))

\* parse_qs(qs)[key]: the values of key in order; <<>> stands for KeyError
qs_get(qs, key) ==
    LET ps == parse_qsl(qs)
        idx == {i \in 1..Len(ps) : ps[i].name = key}
        F[n \in 0..Len(ps)] ==
            IF n = 0 THEN <<>>
            ELSE IF n \in idx THEN F[n - 1] \o <<ps[n].value>> ELSE F[n - 1]
    IN  F[Len(ps)]

\* variant of lines 93-99 that takes query["list"][-1]
youtube_get_playlist_id_mut_last(s) ==
    IF Len(s) >= 1 /\ s[1] = YT_PLAYLIST_PREFIX
    THEN LET vs == qs_get(urlparse_query(s), <<"list">>)
         IN  IF vs = <<>> THEN [ok |-> FALSE, value |-> <<>>]
             ELSE [ok |-> TRUE, value |-> vs[Len(vs)]]
    ELSE [ok |-> TRUE, value |-> s]

\* lines 93-99; ok = FALSE is the KeyError of query["list"]
youtube_get_playlist_id(s) ==
    IF Len(s) >= 1 /\ s[1] = YT_PLAYLIST_PREFIX
    THEN LET vs == qs_get(urlparse_query(s), <<"list">>)
         IN  IF vs = <<>> THEN [ok |-> FALSE, value |-> <<>>]
             ELSE [ok |-> TRUE, value |-> vs[1]]
    ELSE [ok |-> TRUE, value |-> s]

(***************************************************************************)
(* The playlist arguments a user can compose: a head, an optional query of *)
(* key[=value] pairs joined by "&", an optional fragment.                  *)
(***************************************************************************)
Keys == {<<>>, <<"list">>, <<"v">>}
Vals == {<<>>, <<"a">>, <<" ">>}
Frags == {<<>>, <<"#", "x">>, <<"#", "?", "list", "=", "b">>}
Heads == {YT_PLAYLIST_PREFIX, OTHER_PREFIX, "PL123"}
Pair == [k : Keys, eq : BOOLEAN, v : Vals]

PairSeqs == UNION {[1..n -> Pair] : n \in 0..MaxPairs}

ArgParts == [head : Heads, has_query : BOOLEAN, pairs : PairSeqs, frag : Frags]

RenderPair(p) == quote_plus(p.k) \o (IF p.eq THEN <<"=">> ELSE <<>>) \o quote_plus(p.v)

RECURSIVE RenderPairs(_)
RenderPairs(ps) ==
    IF ps = <<>> THEN <<>>
    ELSE IF Len(ps) = 1 THEN RenderPair(ps[1])
    ELSE RenderPair(ps[1]) \o <<"&">> \o RenderPairs(Tail(ps))

Render(p) ==
    <<p.head>> \o (IF p.has_query THEN <<"?">> \o RenderPairs(p.pairs) ELSE <<>>) \o p.frag

\* the arguments the whole-run specification starts from
GoodUrl == [head |-> YT_PLAYLIST_PREFIX, has_query |-> TRUE,
            pairs |-> <<[k |-> <<"list">>, eq |-> TRUE, v |-> <<"a">>]>>, frag |-> <<>>]
BadUrl == [head |-> YT_PLAYLIST_PREFIX, has_query |-> FALSE, pairs |-> <<>>, frag |-> <<>>]

NameFlags == {<<>>, <<"">>, <<"Road Trip">>}

(***************************************************************************)
(* The remote services.  Track entries of page p are titled <<p, 1>>,      *)
(* <<p, 2>>, ...; the cursor that leads to page p is p.                    *)
(***************************************************************************)
Items(p, n) == [j \in 1..n |-> [title |-> <<p, j>>]]

\* an empty page is served only for an empty playlist
PageSizes(p, more) ==
    IF p = 1 /\ ~more THEN {0, SmallPage, MaxResults} ELSE {SmallPage, MaxResults}

PageOf(cursor) == IF cursor = NoCursor THEN 1 ELSE cursor

\* the identifier the destination catalog holds for a title
Uri(title) == [uri |-> title]

PlaylistIds == {"pl1", "pl2"}
UserId == "user1"

Statuses == {"ok", "fail"}

(***************************************************************************)
(* Helpers of _main, one per expression of the code.                       *)
(***************************************************************************)
\* lines 48-50: the call is recorded with what came back
url_open(kind, auth, arg, status, resp) ==
    Append(http, [kind |-> kind, auth |-> auth, arg |-> arg, status |-> status,
                  resp |-> resp])

\* variant of line 49 in which a failed request is swallowed
urlopen_raises_mut_never(status) == FALSE

\* line 49: urllib.request.urlopen raises on a transport or HTTP error
urlopen_raises(status) == status = "fail"

\* variant of line 140 in which an empty result list is not an error
first_item_raises_mut_never(status) == FALSE

\* lines 110 and 140: [0] on a response with zero items
first_item_raises(status) == status = "empty"

\* variant of lines 53-58 that falls back to a default instead of exiting
get_token_mut_default(var) == [ok |-> TRUE, value |-> <<var>>]

\* lines 53-58
get_token(var) ==
    IF var \in environ THEN [ok |-> TRUE, value |-> <<var>>]
    ELSE [ok |-> FALSE, value |-> <<>>]

\* variant of line 127 that puts the new page in front
extend_mut_front(ts, items) == items \o ts

\* line 127: tracks.extend(ret["items"])
extend(ts, items) == ts \o items

\* variant of line 193 that reads the title of tracks[0]
search_query_mut_first(track) == tracks[1].title

\* line 193: track["snippet"]["title"]
search_query(track) == track.title

\* variant of line 196 that ignores args.name
playlist_name_mut_fetched(override, fetched) == fetched[1]

\* line 196: args.name or name
playlist_name(override, fetched) ==
    IF override # <<>> /\ override[1] # "" THEN override[1] ELSE fetched[1]

\* variant of line 156 that returns user["id"]
created_id_mut_user(resp_id, usr) == usr

\* line 156: return ret["id"]
created_id(resp_id, usr) == <<resp_id>>

\* variant of lines 200-202 with the chunk one too long
chunk_end_mut_over(st, n) == IF st + ChunkSize + 1 > n THEN n ELSE st + ChunkSize + 1

\* lines 200-202
chunk_end(st, n) == IF st + ChunkSize > n THEN n ELSE st + ChunkSize

\* uris[start:end]
Slice(s, st, en) == SubSeq(s, st + 1, en)

Abort(e) ==
    /\ pc' = "aborted"
    /\ exc' = e
    /\ exit_code' = 1

(***************************************************************************)
(* The steps of _main.                                                     *)
(***************************************************************************)
\* line 179
GetYoutubeToken ==
    /\ pc = "yt_token"
    /\ LET t == get_token("YOUTUBE_TOKEN")
       IN  IF t.ok
           THEN /\ yt_token' = t.value
                /\ pc' = "sp_token"
                /\ UNCHANGED <<exc, exit_code>>
           ELSE /\ Abort("SystemExit")
                /\ UNCHANGED yt_token
    /\ UNCHANGED <<environ, stdout_tty, args, arg_parts, sp_token, youtube_playlist,
                   name, ret, tracks, uris, user, spotify_playlist, start, http, pages>>

\* line 180
GetSpotifyToken ==
    /\ pc = "sp_token"
    /\ LET t == get_token("SPOTIFY_TOKEN")
       IN  IF t.ok
           THEN /\ sp_token' = t.value
                /\ pc' = "playlist_id"
                /\ UNCHANGED <<exc, exit_code>>
           ELSE /\ Abort("SystemExit")
                /\ UNCHANGED sp_token
    /\ UNCHANGED <<environ, stdout_tty, args, arg_parts, yt_token, youtube_playlist,
                   name, ret, tracks, uris, user, spotify_playlist, start, http, pages>>

\* line 183
GetPlaylistId ==
    /\ pc = "playlist_id"
    /\ LET r == youtube_get_playlist_id(args.youtube_playlist)
       IN  IF r.ok
           THEN /\ youtube_playlist' = <<r.value>>
                /\ pc' = "playlist_name"
                /\ UNCHANGED <<exc, exit_code>>
           ELSE /\ Abort("KeyError")
                /\ UNCHANGED youtube_playlist
    /\ UNCHANGED <<environ, stdout_tty, args, arg_parts, yt_token, sp_token,
                   name, ret, tracks, uris, user, spotify_playlist, start, http, pages>>

\* lines 184, 102-110; status "empty" is a response with zero items
GetPlaylistName ==
    /\ pc = "playlist_name"
    /\ \E status \in Statuses \cup {"empty"} :
          /\ http' = url_open("playlists", yt_token, youtube_playlist, status, <<>>)
          /\ IF urlopen_raises(status)
             THEN Abort("URLError") /\ UNCHANGED name
             ELSE IF first_item_raises(status)
             THEN Abort("IndexError") /\ UNCHANGED name
             ELSE /\ name' = <<"My Mix">>
                  /\ pc' = "tracks_first"
                  /\ UNCHANGED <<exc, exit_code>>
    /\ UNCHANGED <<environ, stdout_tty, args, arg_parts, yt_token, sp_token,
                   youtube_playlist, ret, tracks, uris, user, spotify_playlist,
                   start, pages>>

\* the source service answers a playlistItems request that carries `cursor`
ServePage(cursor, status, n, more) ==
    LET p == PageOf(cursor)
        page == [items |-> Items(p, n),
                 nextPageToken |-> IF more THEN p + 1 ELSE NoCursor]
    IN  /\ http' = url_open("playlistItems", yt_token,
                            <<youtube_playlist[1], cursor>>, status, <<>>)
        /\ IF urlopen_raises(status)
           THEN Abort("URLError") /\ UNCHANGED <<pages, ret, tracks>>
           ELSE /\ pages' = Append(pages, page)
                /\ ret' = page
                /\ tracks' = IF cursor = NoCursor THEN page.items
                             ELSE extend(tracks, page.items)
                /\ pc' = "tracks_loop"
                /\ UNCHANGED <<exc, exit_code>>

\* lines 121-122
GetTracksFirst ==
    /\ pc = "tracks_first"
    /\ \E status \in Statuses, more \in BOOLEAN :
          \E n \in PageSizes(1, more) :
             /\ more => 1 < MaxPages
             /\ ServePage(NoCursor, status, n, more)
    /\ UNCHANGED <<environ, stdout_tty, args, arg_parts, yt_token, sp_token,
                   youtube_playlist, name, uris, user, spotify_playlist, start>>

\* lines 124-127
GetTracksNext ==
    /\ pc = "tracks_loop"
    /\ ret.nextPageToken # NoCursor
    /\ \E status \in Statuses, more \in BOOLEAN :
          \E n \in PageSizes(PageOf(ret.nextPageToken), more) :
             /\ more => PageOf(ret.nextPageToken) < MaxPages
             /\ ServePage(ret.nextPageToken, status, n, more)
    /\ UNCHANGED <<environ, stdout_tty, args, arg_parts, yt_token, sp_token,
                   youtube_playlist, name, uris, user, spotify_playlist, start>>

\* lines 124, 129, 187-188
GetTracksReturn ==
    /\ pc = "tracks_loop"
    /\ ret.nextPageToken = NoCursor
    /\ pc' = "progress"
    /\ UNCHANGED <<environ, stdout_tty, args, arg_parts, yt_token, sp_token,
                   youtube_playlist, name, ret, tracks, uris, user,
                   spotify_playlist, start, http, pages, exc, exit_code>>

\* lines 191-192, 71-76 and 88: the generator runs to its first yield, or,
\* with nothing to yield, falls through to `msg = base`
ProgressBarStart ==
    /\ pc = "progress"
    /\ IF ~stdout_tty THEN Abort("OSError")
       ELSE IF Len(tracks) = 0 THEN Abort("UnboundLocalError")
       ELSE /\ pc' = "search"
            /\ UNCHANGED <<exc, exit_code>>
    /\ UNCHANGED <<environ, stdout_tty, args, arg_parts, yt_token, sp_token,
                   youtube_playlist, name, ret, tracks, uris, user,
                   spotify_playlist, start, http, pages>>

\* lines 193-194, 132-140, then the generator's lines 78-90 up to its next
\* yield or its end; status "empty" is a response with zero items
SearchTrack ==
    /\ pc = "search"
    /\ LET q == search_query(tracks[Len(uris) + 1])
       IN  \E status \in Statuses \cup {"empty"} :
              /\ http' = url_open("search", sp_token, <<q>>, status,
                                  IF status = "ok" THEN <<Uri(q)>> ELSE <<>>)
              /\ IF urlopen_raises(status)
                 THEN Abort("URLError") /\ UNCHANGED uris
                 ELSE IF first_item_raises(status)
                 THEN Abort("IndexError") /\ UNCHANGED uris
                 ELSE /\ uris' = Append(uris, Uri(q))
                      /\ pc' = IF Len(uris) + 1 = Len(tracks) THEN "create_me" ELSE "search"
                      /\ UNCHANGED <<exc, exit_code>>
    /\ UNCHANGED <<environ, stdout_tty, args, arg_parts, yt_token, sp_token,
                   youtube_playlist, name, ret, tracks, user, spotify_playlist,
                   start, pages>>

\* lines 144-147
CreatePlaylistMe ==
    /\ pc = "create_me"
    /\ \E status \in Statuses :
          /\ http' = url_open("me", sp_token, <<>>, status, <<>>)
          /\ IF urlopen_raises(status)
             THEN Abort("URLError") /\ UNCHANGED user
             ELSE /\ user' = <<UserId>>
                  /\ pc' = "create_post"
                  /\ UNCHANGED <<exc, exit_code>>
    /\ UNCHANGED <<environ, stdout_tty, args, arg_parts, yt_token, sp_token,
                   youtube_playlist, name, ret, tracks, uris, spotify_playlist,
                   start, pages>>

\* lines 149-156, 196-197
CreatePlaylistPost ==
    /\ pc = "create_post"
    /\ \E status \in Statuses, id \in PlaylistIds :
          /\ http' = url_open("create", sp_token,
                              <<user[1], playlist_name(args.name, name)>>, status,
                              IF status = "ok" THEN <<id>> ELSE <<>>)
          /\ IF urlopen_raises(status)
             THEN Abort("URLError") /\ UNCHANGED spotify_playlist
             ELSE /\ spotify_playlist' = created_id(id, user)
                  /\ pc' = "add"
                  /\ UNCHANGED <<exc, exit_code>>
    /\ UNCHANGED <<environ, stdout_tty, args, arg_parts, yt_token, sp_token,
                   youtube_playlist, name, ret, tracks, uris, user, start, pages>>

\* lines 199-203, 159-170: one iteration of the append loop
AddToPlaylist ==
    /\ pc = "add"
    /\ start < Len(uris)
    /\ \E status \in Statuses :
          /\ http' = url_open("add", sp_token,
                              <<spotify_playlist[1],
                                Slice(uris, start, chunk_end(start, Len(uris)))>>,
                              status, <<>>)
          /\ IF urlopen_raises(status)
             THEN Abort("URLError") /\ UNCHANGED start
             ELSE /\ start' = start + ChunkSize
                  /\ UNCHANGED <<pc, exc, exit_code>>
    /\ UNCHANGED <<environ, stdout_tty, args, arg_parts, yt_token, sp_token,
                   youtube_playlist, name, ret, tracks, uris, user,
                   spotify_playlist, pages>>

\* lines 199, 204-208
Return ==
    /\ pc = "add"
    /\ start >= Len(uris)
    /\ pc' = "done"
    /\ exit_code' = 0
    /\ UNCHANGED <<environ, stdout_tty, args, arg_parts, yt_token, sp_token,
                   youtube_playlist, name, ret, tracks, uris, user,
                   spotify_playlist, start, http, pages, exc>>

Locals ==
    /\ yt_token = <<>>
    /\ sp_token = <<>>
    /\ youtube_playlist = <<>>
    /\ name = <<>>
    /\ ret = [items |-> <<>>, nextPageToken |-> NoCursor]
    /\ tracks = <<>>
    /\ uris = <<>>
    /\ user = <<>>
    /\ spotify_playlist = <<>>
    /\ start = 0
    /\ http = <<>>
    /\ pages = <<>>
    /\ exc = ""
    /\ exit_code = -1

\* lines 173-177: the state once the command line is parsed
Init ==
    /\ pc = "yt_token"
    /\ environ \in SUBSET {"YOUTUBE_TOKEN", "SPOTIFY_TOKEN"}
    /\ stdout_tty \in BOOLEAN
    /\ arg_parts \in {GoodUrl, BadUrl}
    /\ \E flag \in NameFlags :
          args = [youtube_playlist |-> Render(arg_parts), name |-> flag]
    /\ Locals

Next ==
    \/ GetYoutubeToken
    \/ GetSpotifyToken
    \/ GetPlaylistId
    \/ GetPlaylistName
    \/ GetTracksFirst
    \/ GetTracksNext
    \/ GetTracksReturn
    \/ ProgressBarStart
    \/ SearchTrack
    \/ CreatePlaylistMe
    \/ CreatePlaylistPost
    \/ AddToPlaylist
    \/ Return

Spec == Init /\ [][Next]_vars

(***************************************************************************)
(* _youtube_get_playlist_id on its own, over every composed argument.      *)
(***************************************************************************)
InitPlaylistId ==
    /\ pc = "playlist_id"
    /\ environ = {"YOUTUBE_TOKEN", "SPOTIFY_TOKEN"}
    /\ stdout_tty = TRUE
    /\ arg_parts \in ArgParts
    /\ args = [youtube_playlist |-> Render(arg_parts), name |-> <<>>]
    /\ Locals

NextPlaylistId == GetPlaylistId

SpecPlaylistId == InitPlaylistId /\ [][NextPlaylistId]_vars

(***************************************************************************)
(* What the run has done so far, read off the log of requests.             *)
(***************************************************************************)
Final == {"done", "aborted"}

OfKind(k) == SelectSeq(http, LAMBDA r : r.kind = k)

IndexesOf(k) == {i \in 1..Len(http) : http[i].kind = k}

AllOk(n) == \A i \in 1..n : http[i].status = "ok"

\* ceil(n / ChunkSize)
Chunks(n) == (n + ChunkSize - 1) \div ChunkSize

PageItems == Concat([i \in 1..Len(pages) |-> pages[i].items])

AddChunks == [i \in 1..Len(OfKind("add")) |-> OfKind("add")[i].arg[2]]

\* C1: with YOUTUBE_TOKEN or SPOTIFY_TOKEN unset the run issues no request
\* and ends with SystemExit, status 1; any request is issued only once both
\* _get_token calls have returned.
C1_MissingTokenNoRequest ==
    /\ environ # {"YOUTUBE_TOKEN", "SPOTIFY_TOKEN"} =>
          /\ http = <<>>
          /\ pc \in {"yt_token", "sp_token", "aborted"}
          /\ pc = "aborted" => exc = "SystemExit" /\ exit_code = 1
    /\ http # <<>> => yt_token # <<>> /\ sp_token # <<>>

C1_Witness ==
    /\ environ = {"YOUTUBE_TOKEN"}
    /\ pc = "aborted"
    /\ yt_token # <<>>
    /\ exit_code = 1

\* C2: once a search has come back with zero results the run is aborted by
\* that very response, and the log holds no current-user lookup, no create
\* request and no append call.
C2_EmptySearchAborts ==
    \A i \in IndexesOf("search") :
        http[i].status = "empty" =>
            /\ i = Len(http)
            /\ pc = "aborted"
            /\ exc = "IndexError"
            /\ IndexesOf("me") \cup IndexesOf("create") \cup IndexesOf("add") = {}

C2_Witness ==
    /\ Len(tracks) > 3
    /\ Len(uris) = 2
    /\ http # <<>>
    /\ Last(http).kind = "search"
    /\ Last(http).status = "empty"

\* C3: the append calls carry contiguous chunks of uris in order: each holds
\* 1..100 identifiers, each but the last exactly 100, together they are a
\* prefix of uris, and all of uris once the run is done, in ceil(N/100) calls.
C3_Chunking ==
    LET cs == AddChunks
    IN  /\ \A i \in 1..Len(cs) : Len(cs[i]) \in 1..ChunkSize
        /\ \A i \in 1..(Len(cs) - 1) : Len(cs[i]) = ChunkSize
        /\ Len(Concat(cs)) <= Len(uris)
        /\ Concat(cs) = SubSeq(uris, 1, Len(Concat(cs)))
        /\ pc = "done" => Concat(cs) = uris /\ Len(cs) = Chunks(Len(uris))

C3_Witness ==
    /\ pc = "done"
    /\ Len(uris) = 2 * ChunkSize + MaxResults
    /\ Len(AddChunks) = 3
    /\ Len(AddChunks[3]) = MaxResults

C5_Pagination ==
    LET rs == OfKind("playlistItems")
    IN  /\ Len(rs) \in {Len(pages), Len(pages) + 1}
        /\ Len(rs) = Len(pages) + 1 => Last(rs).status = "fail" /\ pc = "aborted"
        /\ \A i \in 1..Len(rs) :
              rs[i].arg[2] = IF i = 1 THEN NoCursor ELSE pages[i - 1].nextPageToken
        /\ \A i, j \in 1..Len(rs) : i # j => rs[i].arg[2] # rs[j].arg[2]
        /\ \A i \in 1..(Len(pages) - 1) : pages[i].nextPageToken # NoCursor
        /\ tracks = PageItems
        /\ pc \in {"progress", "search", "create_me", "create_post", "add", "done"} =>
              /\ pages # <<>>
              /\ Last(pages).nextPageToken = NoCursor
              /\ Len(rs) = Len(pages)

C5_Witness ==
    /\ pc = "progress"
    /\ Len(pages) = 3
    /\ Len(pages[1].items) = SmallPage
    /\ Len(pages[2].items) = MaxResults
    /\ Len(tracks) = 2 * SmallPage + MaxResults

\* the non-blank `list` parameters the argument was composed with, in order
ListValues(p) ==
    IF p.has_query
    THEN SelectSeq(p.pairs, LAMBDA x : x.k = <<"list">> /\ x.eq /\ x.v # <<>>)
    ELSE <<>>

\* C6 as stated: _youtube_get_playlist_id never fails, and returns the
\* `list` parameter's value or else the raw input.
C6_NeverFails ==
    pc # "playlist_id" =>
        /\ pc = "playlist_name"
        /\ \/ /\ ListValues(arg_parts) # <<>>
              /\ youtube_playlist = <<ListValues(arg_parts)[1].v>>
           \/ youtube_playlist = <<args.youtube_playlist>>

\* C6 amended: an input that starts with the recognised prefix and has a
\* non-blank `list` parameter gives the decoded value of the first such
\* parameter; an input that does not start with the prefix is returned
\* unchanged; an input with the prefix and no non-blank `list` parameter
\* fails with KeyError.
C6_PlaylistId ==
    pc # "playlist_id" =>
        LET vs == ListValues(arg_parts)
        IN  IF arg_parts.head # YT_PLAYLIST_PREFIX
            THEN pc = "playlist_name" /\ youtube_playlist = <<args.youtube_playlist>>
            ELSE IF vs # <<>>
            THEN pc = "playlist_name" /\ youtube_playlist = <<vs[1].v>>
            ELSE pc = "aborted" /\ exc = "KeyError"

C6_Witness ==
    /\ pc = "playlist_name"
    /\ arg_parts.head = YT_PLAYLIST_PREFIX
    /\ Len(ListValues(arg_parts)) = 2
    /\ ListValues(arg_parts)[1].v = <<" ">>
    /\ ListValues(arg_parts)[2].v = <<"a">>
    /\ youtube_playlist = <<<<" ">>>>

\* C7 as stated: the create request carries the --name value whenever the
\* flag was given, whatever its value, and the fetched name otherwise.
C7_OverrideAlways ==
    \A i \in IndexesOf("create") :
        http[i].arg[2] = IF args.name # <<>> THEN args.name[1] ELSE name[1]

\* C7 amended: the create request carries the --name value whenever the
\* flag was given with a non-empty value, and the fetched name when the flag
\* was absent or given as the empty string.
C7_OverrideNonEmpty ==
    \A i \in IndexesOf("create") :
        http[i].arg[2] = IF args.name # <<>> /\ args.name # <<"">>
                         THEN args.name[1] ELSE name[1]

C7_Witness ==
    /\ args.name = <<"Road Trip">>
    /\ pc = "add"
    /\ Last(http).kind = "create"
    /\ Last(http).arg[2] = "Road Trip"

\* C8: with a terminal attached, the progress bar changes nothing: a run
\* ends either with exit 0, or before any request (token, playlist argument),
\* or on a request that failed or came back empty, as the bare loop over the
\* tracks would; and a fetched playlist with zero tracks ends in a created
\* playlist, zero append calls and exit 0 if no request fails.
C8_NoControlFlowImpact ==
    stdout_tty =>
        /\ pc \in Final =>
              \/ pc = "done"
              \/ http = <<>> /\ exc \in {"SystemExit", "KeyError"}
              \/ http # <<>> /\ Last(http).status # "ok"
        /\ (pc \in Final /\ http # <<>> /\ AllOk(Len(http)) /\ pages # <<>>
              /\ Last(pages).nextPageToken = NoCursor /\ tracks = <<>>) =>
              /\ exit_code = 0
              /\ IndexesOf("create") # {}
              /\ IndexesOf("add") = {}

\* C9: a request that failed (or came back empty) is the last request of
\* the run: the run is aborted with exit status 1, nothing is issued after
\* it, the requests before it all succeeded and stay as they are.
C9_FailureIsTerminal ==
    /\ \A i \in 1..Len(http) :
          http[i].status # "ok" =>
              /\ i = Len(http)
              /\ pc = "aborted"
              /\ exit_code = 1
              /\ exc \in {"URLError", "IndexError"}
    /\ \A i \in 1..Len(http) :
          http[i].kind \in {"playlists", "playlistItems", "search", "me", "create", "add"}
    /\ Len(OfKind("add")) <= Chunks(Len(uris))

C9_Witness ==
    /\ pc = "aborted"
    /\ Len(OfKind("add")) = 3
    /\ Last(http).kind = "add"
    /\ Last(http).status = "fail"
    /\ http[Len(http) - 1].kind = "add"

\* C10: at most one create request; it and its current-user lookup come
\* after the name fetch, the last page and one successful search per track;
\* every append call comes after the successful create and targets the
\* identifier it returned; exit 0 only after ceil(N/100) successful appends.
C10_CreateOnceThenAppend ==
    /\ Cardinality(IndexesOf("create")) <= 1
    /\ Cardinality(IndexesOf("me")) <= 1
    /\ \A i \in IndexesOf("me") \cup IndexesOf("create") :
          /\ AllOk(i - 1)
          /\ http[1].kind = "playlists"
          /\ pages # <<>> /\ Last(pages).nextPageToken = NoCursor
          /\ Len(OfKind("playlistItems")) = Len(pages)
          /\ tracks = PageItems
          /\ Len(OfKind("search")) = Len(tracks)
          /\ \A j \in IndexesOf("playlists") \cup IndexesOf("playlistItems")
                       \cup IndexesOf("search") : j < i
    /\ \A i \in IndexesOf("add") :
          \E c \in IndexesOf("create") :
              /\ c < i
              /\ http[c].status = "ok"
              /\ <<http[i].arg[1]>> = http[c].resp
    /\ exit_code = 0 =>
          /\ pc = "done"
          /\ AllOk(Len(http))
          /\ IndexesOf("create") # {}
          /\ Len(OfKind("add")) = Chunks(Len(uris))

C10_Witness ==
    /\ pc = "done"
    /\ exit_code = 0
    /\ spotify_playlist = <<"pl2">>
    /\ Len(OfKind("add")) = 2
====
